---- MODULE Spec2Model ----
(***************************************************************************)
(* Model of selectors.py: the JSON recovery pipeline (extract_clean_json,  *)
(* _verify_json_integrity, _sanitize_json_string_values, is_valid_json)    *)
(* and the response locator (extract_ai_response).                         *)
(*                                                                         *)
(* A Python str is a sequence of one-character strings.  A decoded JSON    *)
(* value is a record [t, s, keys, kids]:                                   *)
(*   t = "str"   s = the characters of the string                          *)
(*   t = "int"   s = the decimal digits (with sign) of the integer         *)
(*   t = "float" s = the literal as written                                *)
(*   t = "lit"   s = true, false, null, NaN, Infinity or -Infinity         *)
(*   t = "arr"   kids = the items                                          *)
(*   t = "obj"   keys, kids = the keys and their values, insertion order   *)
(***************************************************************************)
EXTENDS Integers, Sequences, FiniteSets, TLC

VARIABLES
    mode,            \* which function the behaviour runs: "extract", "fn", "locator"
    text,            \* the argument: text / json_str
    pc,              \* position in the function being run
    cleaned,         \* extract_clean_json: cleaned
    json_start,      \* extract_clean_json: json_start (0-based, -1 = none)
    json_end,        \* extract_clean_json: json_end (0-based, -1 = none)
    idx,             \* extract_clean_json: loop variable i of the balance scan
    brace_balance,   \* extract_clean_json: brace_balance
    bracket_balance, \* extract_clean_json: bracket_balance
    in_string,       \* extract_clean_json: in_string
    escape_next,     \* extract_clean_json: escape_next
    neg_seen,        \* history: some counter of the balance scan was negative
    integrity,       \* history: outcome of the step-7 recheck: "none", "ok", "fail"
    json_str,        \* extract_clean_json: json_str
    result,          \* extract_clean_json: the str returned
    response,        \* extract_ai_response: how it ended and the dict returned
    fn_out,          \* results of the functions applied on their own
    fb,              \* locator: index into AI_RESPONSE_FALLBACKS
    outcome,         \* history: what each strategy of the locator came to
    consulted        \* history: the strategies consulted, in order

vars == <<mode, text, pc, cleaned, json_start, json_end, idx, brace_balance,
          bracket_balance, in_string, escape_next, neg_seen, integrity,
          json_str, result, response, fn_out, fb, outcome, consulted>>

(***************************************************************************)
(* Characters                                                              *)
(***************************************************************************)
LowerSeq == <<"a","b","c","d","e","f","g","h","i","j","k","l","m",
              "n","o","p","q","r","s","t","u","v","w","x","y","z">>
UpperSeq == <<"A","B","C","D","E","F","G","H","I","J","K","L","M",
              "N","O","P","Q","R","S","T","U","V","W","X","Y","Z">>
LowerLetters == {LowerSeq[k] : k \in 1..Len(LowerSeq)}
UpperLetters == {UpperSeq[k] : k \in 1..Len(UpperSeq)}
Letters == LowerLetters \cup UpperLetters
Digits == {"0","1","2","3","4","5","6","7","8","9"}

\* str.lower() on one character
LowerChar(c) ==
    IF c \in UpperLetters
    THEN LowerSeq[CHOOSE k \in 1..Len(UpperSeq) : UpperSeq[k] = c]
    ELSE c

\* str.lower()
Lower(s) == [k \in 1..Len(s) |-> LowerChar(s[k])]

\* what str.strip() and the regex class \s take for white space
PyWhitespace == {" ", "\t", "\n", "\r", "\f"}
\* the regex class \w
WordChars == Letters \cup Digits \cup {"_"}
\* the white space json.loads skips between tokens
JsonWhitespace == {" ", "\t", "\n", "\r"}
\* the characters json.loads (strict) refuses inside a string
ControlChars == {"\t", "\n", "\r", "\f"}

\* s[i] (1-based), "" beyond the ends
At(s, i) == IF i \in 1..Len(s) THEN s[i] ELSE ""

\* s[i-1:j-1] of Python for 1-based i, exclusive j
Slice(s, i, j) == IF j <= i THEN <<>> ELSE SubSeq(s, i, j - 1)

\* s[i-1:].startswith(p), 1-based i
StartsAt(s, i, p) ==
    /\ i >= 1
    /\ i + Len(p) - 1 <= Len(s)
    /\ \A k \in 1..Len(p) : s[i + k - 1] = p[k]

\* p in s
Contains(s, p) == \E i \in 1..(Len(s) + 1) : StartsAt(s, i, p)

\* str.strip()
Strip(s) ==
    IF \A k \in 1..Len(s) : s[k] \in PyWhitespace THEN <<>>
    ELSE LET a == CHOOSE k \in 1..Len(s) :
                     /\ s[k] \notin PyWhitespace
                     /\ \A m \in 1..(k - 1) : s[m] \in PyWhitespace
             b == CHOOSE k \in 1..Len(s) :
                     /\ s[k] \notin PyWhitespace
                     /\ \A m \in (k + 1)..Len(s) : s[m] \in PyWhitespace
         IN SubSeq(s, a, b)

\* the first index >= i of s whose character is not in ws (Len(s) + 1 if none)
SkipOver(s, i, ws) ==
    IF \A k \in i..Len(s) : s[k] \in ws THEN Len(s) + 1
    ELSE CHOOSE j \in i..Len(s) :
             s[j] \notin ws /\ \A k \in i..(j - 1) : s[k] \in ws

\* a for loop over the indices a..b with body F and loop state st: the state
\* after the last iteration (the range is halved so that a long text does not
\* nest one evaluation per character)
RECURSIVE FoldIdx(_, _, _, _)
FoldIdx(F(_, _), a, b, st) ==
    IF a > b THEN st
    ELSE IF a = b THEN F(st, a)
    ELSE LET mid == (a + b) \div 2
             left == FoldIdx(F, a, mid, st)
         IN IF left = left THEN FoldIdx(F, mid + 1, b, left) ELSE st

(***************************************************************************)
(* _verify_json_integrity (lines 65-116)                                   *)
(***************************************************************************)
\* a variant of the final return that forgets the open-string test
VerifyReturnNoString(brace, bracket, instr) == brace = 0 /\ bracket = 0

\* line 116: the value returned when the loop runs to the end
VerifyReturn(brace, bracket, instr) == brace = 0 /\ bracket = 0 /\ ~instr

\* a variant of the early exit that never fires
VerifyEarlyExitNever(brace, bracket) == FALSE

\* line 112: the early exit
VerifyEarlyExit(brace, bracket) == brace < 0 \/ bracket < 0

\* lines 102-109 (and 254-261): what one character does to a counter
BraceAfter(char, brace) ==
    IF char = "{" THEN brace + 1 ELSE IF char = "}" THEN brace - 1 ELSE brace
BracketAfter(char, bracket) ==
    IF char = "[" THEN bracket + 1 ELSE IF char = "]" THEN bracket - 1 ELSE bracket

\* lines 77-80: the loop state; returned: the loop was left by return False
VerifyStart ==
    [brace |-> 0, bracket |-> 0, in_string |-> FALSE, escape_next |-> FALSE,
     returned |-> FALSE]

\* lines 82-113: the loop body on character i (1-based) of s
VerifyStep(s, st, i) ==
    LET b == BraceAfter(s[i], st.brace)
        k == BracketAfter(s[i], st.bracket)
    IN IF st.returned THEN st
       ELSE IF st.escape_next THEN [st EXCEPT !.escape_next = FALSE]
       ELSE IF s[i] = "\\" /\ st.in_string THEN [st EXCEPT !.escape_next = TRUE]
       ELSE IF s[i] = "\"" THEN [st EXCEPT !.in_string = ~st.in_string]
       ELSE IF st.in_string THEN st
       ELSE [st EXCEPT !.brace = b, !.bracket = k,
                       !.returned = VerifyEarlyExit(b, k)]

\* lines 74-75 and 116, with st the loop state after the loop
VerifyEnd(s, st) ==
    IF s = <<>> THEN FALSE
    ELSE IF st.returned THEN FALSE
    ELSE VerifyReturn(st.brace, st.bracket, st.in_string)

verify_json_integrity(s) ==
    VerifyEnd(s, FoldIdx(LAMBDA u, i : VerifyStep(s, u, i), 1, Len(s), VerifyStart))

(***************************************************************************)
(* The regular expressions of extract_clean_json and clean_value.  re.sub  *)
(* with an empty replacement goes left to right: where the pattern matches *)
(* it skips the match, elsewhere it copies the character.  The loop state  *)
(* is [out, next]: the text built and the next index to look at.           *)
(***************************************************************************)
\* the backquote character (a TLA+ string cannot hold one)
BQ == "BQ"
Phrase == <<"u","s","e"," ","c","o","d","e"," ","w","i","t","h"," ","c","a","u","t","i","o","n">>
FenceJson == <<BQ, BQ, BQ, "j","s","o","n">>
Fence == <<BQ, BQ, BQ>>
JsonWord == <<"j","s","o","n">>

SubStart == [out |-> <<>>, next |-> 1]
SubCopy(s, st, i) == [out |-> Append(st.out, s[i]), next |-> i + 1]
SubSkip(st, to) == [st EXCEPT !.next = to]

\* r'use code with caution\.?' with re.IGNORECASE; ls = s.lower()
PhraseStep(s, ls, st, i) ==
    IF i < st.next THEN st
    ELSE IF StartsAt(ls, i, Phrase)
         THEN SubSkip(st, i + Len(Phrase)
                          + (IF At(s, i + Len(Phrase)) = "." THEN 1 ELSE 0))
         ELSE SubCopy(s, st, i)

SubPhrase(s, ls) ==
    FoldIdx(LAMBDA u, i : PhraseStep(s, ls, u, i), 1, Len(s), SubStart).out

\* re.sub(r'use code with caution\.?', '', s, flags=re.IGNORECASE)
RemovePhrase(s) == SubPhrase(s, Lower(s))

\* r'```json\s*' with re.IGNORECASE
FenceJsonStep(s, ls, st, i) ==
    IF i < st.next THEN st
    ELSE IF StartsAt(ls, i, FenceJson)
         THEN SubSkip(st, SkipOver(s, i + Len(FenceJson), PyWhitespace))
         ELSE SubCopy(s, st, i)

\* r'```\s*'
FenceStep(s, st, i) ==
    IF i < st.next THEN st
    ELSE IF StartsAt(s, i, Fence)
         THEN SubSkip(st, SkipOver(s, i + Len(Fence), PyWhitespace))
         ELSE SubCopy(s, st, i)

\* r'\bjson\b(?=\s*[{"\[])' with re.IGNORECASE
LabelStep(s, ls, st, i) ==
    IF i < st.next THEN st
    ELSE IF /\ StartsAt(ls, i, JsonWord)
            /\ At(s, i - 1) \notin WordChars
            /\ At(s, i + Len(JsonWord)) \notin WordChars
            /\ At(s, SkipOver(s, i + Len(JsonWord), PyWhitespace)) \in {"{", "\"", "["}
         THEN SubSkip(st, i + Len(JsonWord))
         ELSE SubCopy(s, st, i)

\* line 210: the characters the allow-list keeps
AllowList ==
    Letters \cup Digits \cup
    {"{", "}", "[", "]", ":", ",", "\"", "'", ".", "@", "-", "_", " ", "\t"}

\* re.sub(r'[^a-zA-Z0-9{}\[\]:,"\'.@\-_ \t]', '', s)
KeepAllowed(s) == SelectSeq(s, LAMBDA c : c \in AllowList)

SubFenceJson(s, ls) ==
    FoldIdx(LAMBDA u, i : FenceJsonStep(s, ls, u, i), 1, Len(s), SubStart).out

SubFence(s) ==
    FoldIdx(LAMBDA u, i : FenceStep(s, u, i), 1, Len(s), SubStart).out

SubLabel(s, ls) ==
    FoldIdx(LAMBDA u, i : LabelStep(s, ls, u, i), 1, Len(s), SubStart).out

\* line 202: re.sub(r'```json\s*', '', s, flags=re.IGNORECASE)
RemoveFenceJson(s) == SubFenceJson(s, Lower(s))

\* line 205: re.sub(r'\bjson\b(?=\s*[{"\[])', '', s, flags=re.IGNORECASE)
RemoveLabel(s) == SubLabel(s, Lower(s))

\* lines 200-210: the noise strip
NoiseStrip(s) == KeepAllowed(RemoveLabel(SubFence(RemoveFenceJson(RemovePhrase(s)))))

(***************************************************************************)
(* clean_value (lines 136-164)                                             *)
(***************************************************************************)
AlNum == Letters \cup Digits

\* domain_pattern, anchored at both ends: ^[a-z0-9][a-z0-9.-]*[a-z0-9]\.[a-z]{2,}
DomainShape(x) ==
    \E k \in 1..Len(x) :
        /\ x[k] = "."
        /\ k - 1 >= 2
        /\ x[1] \in AlNum
        /\ x[k - 1] \in AlNum
        /\ \A m \in 2..(k - 2) : x[m] \in AlNum \cup {".", "-"}
        /\ Len(x) - k >= 2
        /\ \A m \in (k + 1)..Len(x) : x[m] \in Letters

\* domain_pattern.match(x): $ also matches before a final newline
DomainMatch(x) ==
    \/ DomainShape(x)
    \/ Len(x) >= 1 /\ x[Len(x)] = "\n" /\ DomainShape(SubSeq(x, 1, Len(x) - 1))

\* line 152: range(2)
CleanPasses == 2

\* lines 152-159: the loop, with n iterations left
RECURSIVE StripArtifacts(_, _)
StripArtifacts(val, n) ==
    IF n = 0 THEN val
    ELSE IF /\ StartsAt(Lower(val), 1, JsonWord)
            /\ DomainMatch(Slice(val, Len(JsonWord) + 1, Len(val) + 1))
         THEN StripArtifacts(Slice(val, Len(JsonWord) + 1, Len(val) + 1), n - 1)
    ELSE IF /\ Len(val) >= Len(JsonWord)
            /\ StartsAt(Lower(val), Len(val) - Len(JsonWord) + 1, JsonWord)
            /\ DomainMatch(Slice(val, 1, Len(val) - Len(JsonWord) + 1))
         THEN StripArtifacts(Slice(val, 1, Len(val) - Len(JsonWord) + 1), n - 1)
    ELSE val

clean_value(val) == StripArtifacts(Strip(RemovePhrase(val)), CleanPasses)

(***************************************************************************)
(* json.loads, as far as the characters of the model's inputs go: objects, *)
(* arrays, strings with the two-character escapes, numbers, the literals.  *)
(* A \uXXXX escape is refused here (no input of the model holds one), and  *)
(* a float keeps its literal (no input of the model holds one either).     *)
(***************************************************************************)
S_true == <<"t","r","u","e">>
S_false == <<"f","a","l","s","e">>
S_null == <<"n","u","l","l">>
S_NaN == <<"N","a","N">>
S_Infinity == <<"I","n","f","i","n","i","t","y">>
S_NegInfinity == <<"-","I","n","f","i","n","i","t","y">>
\* the backspace character
BS == "BS"

StrV(s) == [t |-> "str", s |-> s, keys |-> <<>>, kids |-> <<>>]
IntV(s) == [t |-> "int", s |-> s, keys |-> <<>>, kids |-> <<>>]
FloatV(s) == [t |-> "float", s |-> s, keys |-> <<>>, kids |-> <<>>]
LitV(s) == [t |-> "lit", s |-> s, keys |-> <<>>, kids |-> <<>>]
ArrV(kids) == [t |-> "arr", s |-> <<>>, keys |-> <<>>, kids |-> kids]
ObjV(keys, kids) == [t |-> "obj", s |-> <<>>, keys |-> keys, kids |-> kids]

\* a JSONDecodeError
DecodeError == [ok |-> FALSE, v |-> LitV(S_null), n |-> 0]
Decoded(v, n) == [ok |-> TRUE, v |-> v, n |-> n]

\* the character a two-character escape stands for
Unescape(e) ==
    CASE e = "n" -> "\n" [] e = "r" -> "\r" [] e = "t" -> "\t"
      [] e = "f" -> "\f" [] e = "b" -> BS [] OTHER -> e

\* py_scanstring, strict: the loop state; the scan starts just after the
\* opening quote
ScanStringStart == [done |-> FALSE, ok |-> TRUE, esc |-> FALSE, acc |-> <<>>, n |-> 0]

\* py_scanstring: what character j does
ScanStringStep(s, st, j) ==
    IF st.done THEN st
    ELSE IF st.esc
         THEN IF s[j] \in {"\"", "\\", "/", "b", "f", "n", "r", "t"}
              THEN [st EXCEPT !.esc = FALSE, !.acc = Append(st.acc, Unescape(s[j]))]
              ELSE [st EXCEPT !.done = TRUE, !.ok = FALSE]
    ELSE IF s[j] = "\"" THEN [st EXCEPT !.done = TRUE, !.n = j + 1]
    ELSE IF s[j] \in ControlChars \cup {BS} THEN [st EXCEPT !.done = TRUE, !.ok = FALSE]
    ELSE IF s[j] = "\\" THEN [st EXCEPT !.esc = TRUE]
    ELSE [st EXCEPT !.acc = Append(st.acc, s[j])]

\* py_scanstring(s, i - 1): the string whose opening quote is at index i - 1
ScanString(s, i) ==
    LET st == FoldIdx(LAMBDA u, j : ScanStringStep(s, u, j), i, Len(s), ScanStringStart)
    IN IF st.done /\ st.ok THEN Decoded(StrV(st.acc), st.n) ELSE DecodeError

\* NUMBER_RE: (-?(?:0|[1-9]\d*))(\.\d+)?([eE][-+]?\d+)?
ScanNumber(s, i) ==
    LET j0 == IF At(s, i) = "-" THEN i + 1 ELSE i
        j1 == IF At(s, j0) = "0" THEN j0 + 1
              ELSE IF At(s, j0) \in Digits THEN SkipOver(s, j0 + 1, Digits)
              ELSE 0
        j2 == IF At(s, j1) = "." /\ At(s, j1 + 1) \in Digits
              THEN SkipOver(s, j1 + 1, Digits) ELSE j1
        k  == IF At(s, j2 + 1) \in {"+", "-"} THEN j2 + 2 ELSE j2 + 1
        j3 == IF At(s, j2) \in {"e", "E"} /\ At(s, k) \in Digits
              THEN SkipOver(s, k, Digits) ELSE j2
        lit == Slice(s, i, j3)
    IN IF j1 = 0 THEN DecodeError
       ELSE IF j3 = j1
            THEN Decoded(IntV(IF lit = <<"-", "0">> THEN <<"0">> ELSE lit), j3)
            ELSE Decoded(FloatV(lit), j3)

\* dict(pairs): a repeated key keeps its first place and takes the last value
DictPut(keys, kids, key, val) ==
    IF \E p \in 1..Len(keys) : keys[p] = key
    THEN LET p == CHOOSE q \in 1..Len(keys) : keys[q] = key
         IN <<keys, [kids EXCEPT ![p] = val]>>
    ELSE <<Append(keys, key), Append(kids, val)>>

RECURSIVE ScanOnce(_, _), ArrayItems(_, _, _), ObjectMembers(_, _, _, _)

\* JSONArray: after the item r, a "]" ends the array and a "," brings the next
ArrayNext(s, acc, r) ==
    IF ~r.ok THEN DecodeError
    ELSE IF At(s, SkipOver(s, r.n, JsonWhitespace)) = "]"
         THEN Decoded(ArrV(Append(acc, r.v)), SkipOver(s, r.n, JsonWhitespace) + 1)
    ELSE IF At(s, SkipOver(s, r.n, JsonWhitespace)) # "," THEN DecodeError
    ELSE ArrayItems(s, SkipOver(s, SkipOver(s, r.n, JsonWhitespace) + 1, JsonWhitespace),
                    Append(acc, r.v))

\* JSONArray, after the first item is known to exist: the item at index j
ArrayItems(s, j, acc) == ArrayNext(s, acc, ScanOnce(s, j))

\* JSONObject: after the member d = <<keys, kids>> whose value ended before
\* index e, a "}" ends the object and a "," brings the next member
ObjectNext(s, keys, kids, e) ==
    IF At(s, e) = "}" THEN Decoded(ObjV(keys, kids), e + 1)
    ELSE IF At(s, e) # "," THEN DecodeError
    ELSE IF At(s, SkipOver(s, e + 1, JsonWhitespace)) # "\"" THEN DecodeError
    ELSE ObjectMembers(s, SkipOver(s, e + 1, JsonWhitespace) + 1, keys, kids)

\* JSONObject: the member with key `key`, whose value is r
ObjectValue(s, d, key, r) ==
    IF ~r.ok THEN DecodeError
    ELSE ObjectNext(s, DictPut(d[1], d[2], key, r.v)[1], DictPut(d[1], d[2], key, r.v)[2],
                    SkipOver(s, r.n, JsonWhitespace))

\* JSONObject: the colon and the value after the key
ObjectColon(s, d, key) ==
    IF ~key.ok THEN DecodeError
    ELSE IF At(s, SkipOver(s, key.n, JsonWhitespace)) # ":" THEN DecodeError
    ELSE ObjectValue(s, d, key.v.s,
             ScanOnce(s, SkipOver(s, SkipOver(s, key.n, JsonWhitespace) + 1,
                                  JsonWhitespace)))

\* JSONObject: a member whose key's opening quote is at index j - 1
ObjectMembers(s, j, keys, kids) == ObjectColon(s, <<keys, kids>>, ScanString(s, j))

\* scanner.py _scan_once, when the value is neither a string nor a container
ScanAtom(s, i, num) ==
    IF StartsAt(s, i, S_null) THEN Decoded(LitV(S_null), i + Len(S_null))
    ELSE IF StartsAt(s, i, S_true) THEN Decoded(LitV(S_true), i + Len(S_true))
    ELSE IF StartsAt(s, i, S_false) THEN Decoded(LitV(S_false), i + Len(S_false))
    ELSE IF num.ok THEN num
    ELSE IF StartsAt(s, i, S_NaN) THEN Decoded(LitV(S_NaN), i + Len(S_NaN))
    ELSE IF StartsAt(s, i, S_Infinity)
         THEN Decoded(LitV(S_Infinity), i + Len(S_Infinity))
    ELSE IF StartsAt(s, i, S_NegInfinity)
         THEN Decoded(LitV(S_NegInfinity), i + Len(S_NegInfinity))
    ELSE DecodeError

\* scanner.py _scan_once: the value that starts at index i; j is the index of
\* the first character after the white space that follows index i
ScanAt(s, i, j) ==
    IF At(s, i) = "" THEN DecodeError
    ELSE IF At(s, i) = "\"" THEN ScanString(s, i + 1)
    ELSE IF At(s, i) = "{"
         THEN IF At(s, j) = "\"" THEN ObjectMembers(s, j + 1, <<>>, <<>>)
              ELSE IF At(s, j) = "}" THEN Decoded(ObjV(<<>>, <<>>), j + 1)
              ELSE DecodeError
    ELSE IF At(s, i) = "["
         THEN IF At(s, j) = "]" THEN Decoded(ArrV(<<>>), j + 1)
              ELSE ArrayItems(s, j, <<>>)
    ELSE ScanAtom(s, i, ScanNumber(s, i))

ScanOnce(s, i) == ScanAt(s, i, SkipOver(s, i + 1, JsonWhitespace))

\* json.loads, once the value is scanned: nothing but white space may follow
LoadsEnd(s, r) ==
    IF r.ok /\ SkipOver(s, r.n, JsonWhitespace) = Len(s) + 1 THEN r ELSE DecodeError

\* json.loads(s): .ok is FALSE where it raises JSONDecodeError
json_loads(s) == LoadsEnd(s, ScanOnce(s, SkipOver(s, 1, JsonWhitespace)))

(***************************************************************************)
(* json.dumps with given separators (the default: ", " and ": ")           *)
(***************************************************************************)
\* encoder.py ESCAPE_DCT
EscapeChar(c) ==
    CASE c = "\"" -> <<"\\", "\"">>
      [] c = "\\" -> <<"\\", "\\">>
      [] c = "\n" -> <<"\\", "n">>
      [] c = "\r" -> <<"\\", "r">>
      [] c = "\t" -> <<"\\", "t">>
      [] c = "\f" -> <<"\\", "f">>
      [] c = BS -> <<"\\", "b">>
      [] OTHER -> <<c>>

\* py_encode_basestring_ascii
EncodeString(s) ==
    <<"\"">>
    \o FoldIdx(LAMBDA u, i : u \o EscapeChar(s[i]), 1, Len(s), <<>>)
    \o <<"\"">>

RECURSIVE Dumps(_, _, _), DumpItems(_, _, _, _), DumpMembers(_, _, _, _)
DumpItems(v, i, itemSep, keySep) ==
    IF i > Len(v.kids) THEN <<>>
    ELSE (IF i > 1 THEN itemSep ELSE <<>>)
         \o Dumps(v.kids[i], itemSep, keySep)
         \o DumpItems(v, i + 1, itemSep, keySep)

DumpMembers(v, i, itemSep, keySep) ==
    IF i > Len(v.kids) THEN <<>>
    ELSE (IF i > 1 THEN itemSep ELSE <<>>)
         \o EncodeString(v.keys[i]) \o keySep
         \o Dumps(v.kids[i], itemSep, keySep)
         \o DumpMembers(v, i + 1, itemSep, keySep)

Dumps(v, itemSep, keySep) ==
    CASE v.t = "str" -> EncodeString(v.s)
      [] v.t = "arr" -> <<"[">> \o DumpItems(v, 1, itemSep, keySep) \o <<"]">>
      [] v.t = "obj" -> <<"{">> \o DumpMembers(v, 1, itemSep, keySep) \o <<"}">>
      [] OTHER -> v.s

\* a variant of json.dumps with separators=(',', ':')
json_dumps_compact(v) == Dumps(v, <<",">>, <<":">>)

\* line 178: json.dumps(cleaned_data)
json_dumps(v) == Dumps(v, <<",", " ">>, <<":", " ">>)

(***************************************************************************)
(* _sanitize_json_string_values (lines 119-178)                            *)
(***************************************************************************)
\* lines 166-175
RECURSIVE clean_recursive(_)
clean_recursive(obj) ==
    CASE obj.t = "obj" ->
             ObjV(obj.keys, [k \in 1..Len(obj.kids) |-> clean_recursive(obj.kids[k])])
      [] obj.t = "arr" ->
             ArrV([k \in 1..Len(obj.kids) |-> clean_recursive(obj.kids[k])])
      [] obj.t = "str" -> StrV(clean_value(obj.s))
      [] OTHER -> obj

\* lines 131-134, 177-178, with data = json.loads(json_str)
SanitizeDecoded(s, data) ==
    IF ~data.ok THEN s ELSE json_dumps(clean_recursive(data.v))

sanitize_json_string_values(s) == SanitizeDecoded(s, json_loads(s))

(***************************************************************************)
(* is_valid_json (lines 9-62)                                              *)
(***************************************************************************)
S_example == <<"e","x","a","m","p","l","e">>
S_domain_com == <<"d","o","m","a","i","n",".","c","o","m">>
S_domain == <<"d","o","m","a","i","n">>
S_patterns == <<"p","a","t","t","e","r","n","s">>

\* key in data
HasKey(data, key) == \E p \in 1..Len(data.keys) : data.keys[p] = key

\* line 32
HasPlaceholder(json_lower) ==
    Contains(json_lower, S_example) \/ Contains(json_lower, S_domain_com)

\* lines 39-41, 52-54
HasRequiredField(data) == HasKey(data, S_domain) \/ HasKey(data, S_patterns)

\* lines 23-62, with data = json.loads(json_str)
ValidDecoded(s, data) ==
    IF s = <<>> THEN FALSE
    ELSE IF ~data.ok THEN FALSE
    ELSE IF HasPlaceholder(Lower(s)) THEN FALSE
    ELSE IF data.v.t = "obj" THEN HasRequiredField(data.v)
    ELSE IF data.v.t = "arr"
         THEN IF data.v.kids = <<>> THEN FALSE
              ELSE IF data.v.kids[1].t = "obj" THEN HasRequiredField(data.v.kids[1])
              ELSE TRUE
    ELSE TRUE

is_valid_json(s) == ValidDecoded(s, json_loads(s))

(***************************************************************************)
(* The texts the model runs the functions on                               *)
(***************************************************************************)
\* the longest text of the enumerated family
MaxLen == 4

\* the characters of the enumerated family: all that the two scans tell apart
ScanChars == {"{", "}", "[", "]", "\"", "\\", "1"}

\* every text over ScanChars of at most MaxLen characters
ShortTexts == UNION {[1..n -> ScanChars] : n \in 0..MaxLen}

S_notes == <<"n","o","t","e","s">>
S_abm == <<"a","b","m",".","c","o","m">>
S_abm1 == <<"j","s","o","n","a","b","m",".","c","o","m","j","s","o","n">>
S_abm2 == <<"j","s","o","n","j","s","o","n","a","b","m",".","c","o","m","j","s","o","n">>
S_slash == <<"a","/","b">>
S_sample == <<"e","x","a","m","p","l","e",".","c","o","m">>
S_ok == <<"o","k">>
S_regrow == <<"u","s","e"," ","c","o","d","e"," ","w","i","t","h"," ","c","a","u","t",
              "u","s","e"," ","c","o","d","e"," ","w","i","t","h"," ","c","a","u","t","i","o","n",".",
              "i","o","n",".">>
S_noise == <<"U","s","e"," ","c","o","d","e"," ","w","i","t","h"," ","c","a","u","t","i","o","n",".","\n",
             "j","s","o","n">>
S_fence_open == <<BQ, BQ, BQ, "j","s","o","n","\n">>
S_fence_close == <<"\n", BQ, BQ, BQ>>
S_prose == <<"n","o"," ","j","s","o","n"," ","h","e","r","e">>

DocKeys == {S_domain, S_patterns, S_notes}
DocLeaves ==
    {StrV(S_abm), StrV(S_abm1), StrV(S_slash), StrV(S_sample),
     ArrV(<<StrV(<<"a">>)>>), IntV(<<"1">>)}
DocObjects ==
    {ObjV(<<k>>, <<v>>) : k \in DocKeys, v \in DocLeaves}
    \cup {ObjV(<<S_domain, S_notes>>, <<StrV(S_abm1), StrV(S_ok)>>)}
Docs == DocObjects \cup {ArrV(<<o>>) : o \in DocObjects} \cup {ArrV(<<>>)}

\* the documents as an answer panel shows them: bare, after the boilerplate and
\* the format label, inside a fence, and with json.dumps' separators
DocTexts ==
    {json_dumps_compact(d) : d \in Docs}
    \cup {S_noise \o json_dumps_compact(d) : d \in Docs}
    \cup {S_fence_open \o json_dumps_compact(d) \o S_fence_close : d \in Docs}
    \cup {json_dumps(d) : d \in Docs}

ExtractInputs == ShortTexts \cup DocTexts \cup {S_prose}

\* documents whose string values carry more artifacts than one pass removes
ArtifactDocs ==
    {ObjV(<<S_domain>>, <<StrV(v)>>) : v \in {S_abm, S_abm1, S_abm2, S_regrow}}

FnInputs == ShortTexts \cup {json_dumps_compact(d) : d \in Docs \cup ArtifactDocs}

(***************************************************************************)
(* STATE MACHINE                                                           *)
(***************************************************************************)
NoFnOut == [verify |-> FALSE, once |-> <<>>, twice |-> <<>>]
NoResponse == [kind |-> "none", text |-> <<>>, html |-> ""]

\* the variables of extract_clean_json before the call
ExtractIdle ==
    /\ cleaned = <<>>
    /\ json_start = -1
    /\ json_end = -1
    /\ idx = 0
    /\ brace_balance = 0
    /\ bracket_balance = 0
    /\ in_string = FALSE
    /\ escape_next = FALSE
    /\ neg_seen = FALSE
    /\ integrity = "none"
    /\ json_str = <<>>
    /\ result = <<>>

\* the variables of extract_ai_response before the call
LocatorIdle ==
    /\ response = NoResponse
    /\ fb = 0
    /\ outcome = [st \in {"driver", "primary", "fallback", "script", "bubbles"} |-> {}]
    /\ consulted = <<>>

extractVars == <<cleaned, json_start, json_end, idx, brace_balance, bracket_balance,
                 in_string, escape_next, neg_seen, integrity, json_str, result>>
locatorVars == <<response, fb, outcome, consulted>>

(***************************************************************************)
(* extract_clean_json (lines 181-290)                                      *)
(***************************************************************************)
Init ==
    /\ mode = "extract"
    /\ text \in ExtractInputs
    /\ pc = "start"
    /\ ExtractIdle
    /\ LocatorIdle
    /\ fn_out = NoFnOut

\* lines 194-195
EmptyInput ==
    /\ mode = "extract" /\ pc = "start" /\ text = <<>>
    /\ result' = <<>>
    /\ pc' = "done"
    /\ UNCHANGED <<mode, text, cleaned, json_start, json_end, idx, brace_balance,
                   bracket_balance, in_string, escape_next, neg_seen, integrity,
                   json_str, fn_out, locatorVars>>

\* lines 200-210
Clean ==
    /\ mode = "extract" /\ pc = "start" /\ text # <<>>
    /\ cleaned' = NoiseStrip(text)
    /\ pc' = "find"
    /\ UNCHANGED <<mode, text, json_start, json_end, idx, brace_balance,
                   bracket_balance, in_string, escape_next, neg_seen, integrity,
                   json_str, result, fn_out, locatorVars>>

\* lines 213-219: the 0-based index of the first { or [, -1 if none
FirstOpener(s) ==
    IF \A k \in 1..Len(s) : s[k] \notin {"{", "["} THEN -1
    ELSE (CHOOSE k \in 1..Len(s) :
              s[k] \in {"{", "["} /\ \A m \in 1..(k - 1) : s[m] \notin {"{", "["}) - 1

\* lines 212-230
FindStart ==
    /\ mode = "extract" /\ pc = "find"
    /\ json_start' = FirstOpener(cleaned)
    /\ IF FirstOpener(cleaned) = -1
       THEN /\ result' = <<>>
            /\ pc' = "done"
            /\ idx' = idx
       ELSE /\ result' = result
            /\ pc' = "scan"
            /\ idx' = FirstOpener(cleaned)
    /\ UNCHANGED <<mode, text, cleaned, json_end, brace_balance, bracket_balance,
                   in_string, escape_next, neg_seen, integrity, json_str, fn_out,
                   locatorVars>>

\* line 218
start_char == cleaned[json_start + 1]

\* a variant of the end test that looks at the opener's own counter only
ScanDoneOwnCounter(start, brace, bracket) ==
    \/ start = "{" /\ brace = 0
    \/ start = "[" /\ bracket = 0

\* lines 264-269: the outermost structure is closed
ScanDone(start, brace, bracket) ==
    \/ start = "{" /\ brace = 0 /\ bracket = 0
    \/ start = "[" /\ bracket = 0 /\ brace = 0

\* lines 232-269: one iteration of the balance scan, on cleaned[idx]
ScanStep ==
    /\ mode = "extract" /\ pc = "scan" /\ idx < Len(cleaned)
    /\ LET char == cleaned[idx + 1]
           b == BraceAfter(char, brace_balance)
           k == BracketAfter(char, bracket_balance)
       IN IF escape_next
          THEN /\ escape_next' = FALSE
               /\ idx' = idx + 1
               /\ UNCHANGED <<in_string, brace_balance, bracket_balance, neg_seen,
                              json_end, pc>>
          ELSE IF char = "\\" /\ in_string
          THEN /\ escape_next' = TRUE
               /\ idx' = idx + 1
               /\ UNCHANGED <<in_string, brace_balance, bracket_balance, neg_seen,
                              json_end, pc>>
          ELSE IF char = "\""
          THEN /\ in_string' = ~in_string
               /\ idx' = idx + 1
               /\ UNCHANGED <<escape_next, brace_balance, bracket_balance, neg_seen,
                              json_end, pc>>
          ELSE IF in_string
          THEN /\ idx' = idx + 1
               /\ UNCHANGED <<escape_next, in_string, brace_balance, bracket_balance,
                              neg_seen, json_end, pc>>
          ELSE /\ brace_balance' = b
               /\ bracket_balance' = k
               /\ neg_seen' = (neg_seen \/ b < 0 \/ k < 0)
               /\ IF ScanDone(start_char, b, k)
                  THEN json_end' = idx /\ idx' = idx /\ pc' = "cut"
                  ELSE json_end' = json_end /\ idx' = idx + 1 /\ pc' = pc
               /\ UNCHANGED <<escape_next, in_string>>
    /\ UNCHANGED <<mode, text, cleaned, json_start, integrity, json_str, result,
                   fn_out, locatorVars>>

\* line 232: the range is exhausted
ScanExhausted ==
    /\ mode = "extract" /\ pc = "scan" /\ idx = Len(cleaned)
    /\ pc' = "cut"
    /\ UNCHANGED <<mode, text, fn_out, extractVars, locatorVars>>

\* lines 271-276
CutSpan ==
    /\ mode = "extract" /\ pc = "cut"
    /\ IF json_end = -1 \/ json_end <= json_start
       THEN /\ result' = <<>>
            /\ pc' = "done"
            /\ json_str' = json_str
       ELSE /\ json_str' = Strip(SubSeq(cleaned, json_start + 1, json_end + 1))
            /\ pc' = "verify"
            /\ result' = result
    /\ UNCHANGED <<mode, text, cleaned, json_start, json_end, idx, brace_balance,
                   bracket_balance, in_string, escape_next, neg_seen, integrity,
                   fn_out, locatorVars>>

\* lines 279-281
IntegrityCheck ==
    /\ mode = "extract" /\ pc = "verify"
    /\ IF ~verify_json_integrity(json_str)
       THEN /\ integrity' = "fail"
            /\ result' = <<>>
            /\ pc' = "done"
       ELSE /\ integrity' = "ok"
            /\ result' = result
            /\ pc' = "sanitize"
    /\ UNCHANGED <<mode, text, cleaned, json_start, json_end, idx, brace_balance,
                   bracket_balance, in_string, escape_next, neg_seen, json_str,
                   fn_out, locatorVars>>

\* line 284
Sanitize ==
    /\ mode = "extract" /\ pc = "sanitize"
    /\ json_str' = sanitize_json_string_values(json_str)
    /\ pc' = "validate"
    /\ UNCHANGED <<mode, text, cleaned, json_start, json_end, idx, brace_balance,
                   bracket_balance, in_string, escape_next, neg_seen, integrity,
                   result, fn_out, locatorVars>>

\* a variant of the last step that returns the string without validating it
ExtractReturnUnchecked(s) == s

\* lines 287-290
ExtractReturn(s) == IF is_valid_json(s) THEN s ELSE <<>>

Validate ==
    /\ mode = "extract" /\ pc = "validate"
    /\ result' = ExtractReturn(json_str)
    /\ pc' = "done"
    /\ UNCHANGED <<mode, text, cleaned, json_start, json_end, idx, brace_balance,
                   bracket_balance, in_string, escape_next, neg_seen, integrity,
                   json_str, fn_out, locatorVars>>

Next ==
    \/ EmptyInput
    \/ Clean
    \/ FindStart
    \/ ScanStep
    \/ ScanExhausted
    \/ CutSpan
    \/ IntegrityCheck
    \/ Sanitize
    \/ Validate

Spec == Init /\ [][Next]_vars

(***************************************************************************)
(* _verify_json_integrity and _sanitize_json_string_values applied on      *)
(* their own: the integrity check, the sanitizer, the sanitizer again      *)
(***************************************************************************)
InitFn ==
    /\ mode = "fn"
    /\ text \in FnInputs
    /\ pc = "start"
    /\ ExtractIdle
    /\ LocatorIdle
    /\ fn_out = NoFnOut

ApplyVerify ==
    /\ mode = "fn" /\ pc = "start"
    /\ fn_out' = [fn_out EXCEPT !.verify = verify_json_integrity(text)]
    /\ pc' = "verified"
    /\ UNCHANGED <<mode, text, extractVars, locatorVars>>

ApplySanitize ==
    /\ mode = "fn" /\ pc = "verified"
    /\ fn_out' = [fn_out EXCEPT !.once = sanitize_json_string_values(text)]
    /\ pc' = "sanitized"
    /\ UNCHANGED <<mode, text, extractVars, locatorVars>>

ApplySanitizeAgain ==
    /\ mode = "fn" /\ pc = "sanitized"
    /\ fn_out' = [fn_out EXCEPT !.twice = sanitize_json_string_values(fn_out.once)]
    /\ pc' = "done"
    /\ UNCHANGED <<mode, text, extractVars, locatorVars>>

NextFn == ApplyVerify \/ ApplySanitize \/ ApplySanitizeAgain

SpecFn == InitFn /\ [][NextFn]_vars

(***************************************************************************)
(* extract_ai_response (lines 319-433).  The page is live: every driver    *)
(* call sees the elements that match at that moment, so what a call        *)
(* returns, or that it raises, is chosen when the call is made.  An        *)
(* element is [text, html]: its text content and its markup attribute      *)
(* (NoAttr where get_attribute returns None).                              *)
(***************************************************************************)
\* lines 298-305
AI_RESPONSE_FALLBACKS ==
    <<".Y3BBE", "[data-attrid='AIOverview']", ".ai-overview", "[jsname*='ai']",
      "[data-hveid*='AI']", ".kp-wholepage">>

\* line 378 (and 402): a fallback's text must be longer than this
MinTextLen == 10

\* the most elements one selector matches
MaxMatches == 2

Raises == "raises"
NoAttr == "None"

T_hi == <<" ", "h", "i", " ">>
T_ten == <<"0", "1", "2", "3", "4", "5", "6", "7", "8", "9">>
T_long == <<" ">> \o T_ten \o <<"a", "\n">>

Texts == {<<>>, T_hi, T_ten, T_long}
Htmls == {NoAttr, "<div>"}
Elements == [text : Texts, html : Htmls]
ElementLists == UNION {[1..n -> Elements] : n \in 0..MaxMatches}

\* what find_elements comes to: it raises, or returns a list
Finds ==
    {[got |-> Raises, elems |-> <<>>]} \cup {[got |-> "list", elems |-> l] : l \in ElementLists}

\* what the reads of lines 351-358 come to: one of them raises, or the parent
\* is null, or it is an element
Parents ==
    {[got |-> g, el |-> [text |-> <<>>, html |-> NoAttr]] : g \in {Raises, "null"}}
    \cup {[got |-> "element", el |-> e] : e \in Elements}

\* x or ""
OrEmpty(x) == IF x = NoAttr \/ x = "" THEN "" ELSE x

\* the except clause (its line) that catches an exception raised at `line`,
\* 0 if no try statement encloses the line; a variant in which the handler of
\* line 359 is not itself inside a try
HandlerUnguarded(line) ==
    IF line = 331 THEN 332
    ELSE IF line \in 351..358 THEN 359
    ELSE IF line \in 343..358 \cup 362..368 THEN 369
    ELSE IF line \in 375..381 THEN 382
    ELSE IF line \in 387..419 THEN 420
    ELSE IF line \in 425..429 THEN 430
    ELSE 0

Handler(line) ==
    IF line = 331 THEN 332
    ELSE IF line \in 351..358 THEN 359
    ELSE IF line \in 343..368 THEN 369
    ELSE IF line \in 375..381 THEN 382
    ELSE IF line \in 387..419 THEN 420
    ELSE IF line \in 425..429 THEN 430
    ELSE 0

\* what a strategy's reads came to
Thrown(line) ==
    [kind |-> IF Handler(line) = 0 THEN "escaped" ELSE "caught", text |-> <<>>,
     html |-> ""]
Nothing == [kind |-> "nothing", text |-> <<>>, html |-> ""]
Read(t, h) == [kind |-> "read", text |-> t, html |-> h]

\* the tag the history keeps for it
Tag(r) ==
    IF r.kind \in {"escaped", "caught"} THEN "raised"
    ELSE IF r.kind = "nothing" THEN "nothing"
    ELSE IF r.text = <<>> THEN "no_text"
    ELSE "text"

\* the function returns {"text": t, "html": h}
Return(t, h) ==
    /\ response' = [kind |-> "returned", text |-> t, html |-> h]
    /\ pc' = "done"

\* an exception leaves the function
Escape ==
    /\ response' = [kind |-> "raised", text |-> <<>>, html |-> ""]
    /\ pc' = "done"

Noted(strategy, r) == [outcome EXCEPT ![strategy] = @ \cup {Tag(r)}]

InitLocator ==
    /\ mode = "locator"
    /\ text = <<>>
    /\ pc = "get_driver"
    /\ ExtractIdle
    /\ LocatorIdle
    /\ fn_out = NoFnOut

\* lines 330-336; got: get_driver raises, or the driver it returns (None: none)
GetDriver ==
    /\ mode = "locator" /\ pc = "get_driver"
    /\ \E got \in {Raises, "none", "driver"} :
          /\ outcome' = [outcome EXCEPT !["driver"] =
                            {IF got = Raises THEN "raised" ELSE got}]
          /\ IF got = Raises
             THEN IF Handler(331) = 332 THEN Return(<<>>, "") ELSE Escape
             ELSE IF got = "none" THEN Return(<<>>, "")
             ELSE pc' = "primary" /\ response' = response
    /\ UNCHANGED <<mode, text, fn_out, extractVars, fb, consulted>>

\* lines 360-361, the handler of the inner try: read the element itself
PrimaryHandler(element, handler) ==
    IF handler = Raises THEN Thrown(360)
    ELSE Read(Strip(element.text), OrEmpty(element.html))

\* lines 350-361 on the element chosen
PrimaryElement(element, parent, handler) ==
    IF parent.got = Raises
    THEN IF Handler(351) = 359 THEN PrimaryHandler(element, handler)
         ELSE Thrown(351)
    ELSE IF parent.got = "element"
         THEN Read(Strip(parent.el.text), OrEmpty(parent.el.html))
    ELSE Read(Strip(element.text), OrEmpty(element.html))

\* lines 343-361
PrimaryRead(found, parent, handler) ==
    IF found.got = Raises THEN Thrown(343)
    ELSE IF found.elems = <<>> THEN Nothing
    ELSE PrimaryElement(found.elems[Len(found.elems)], parent, handler)

\* lines 367-372, with r what the reads came to
PrimaryEnd(r) ==
    /\ outcome' = Noted("primary", r)
    /\ IF r.kind = "escaped" THEN Escape /\ fb' = fb
       ELSE IF r.kind = "read" /\ r.text # <<>> THEN Return(r.text, r.html) /\ fb' = fb
       ELSE pc' = "fallback" /\ fb' = 1 /\ response' = response

\* lines 340-370: the primary selector
Primary ==
    /\ mode = "locator" /\ pc = "primary"
    /\ consulted' = Append(consulted, "primary")
    /\ \E found \in Finds, parent \in Parents, handler \in {Raises, "ok"} :
          PrimaryEnd(PrimaryRead(found, parent, handler))
    /\ UNCHANGED <<mode, text, fn_out, extractVars>>

\* lines 375-381 for one selector; attr: get_attribute raises, or not
FallbackRead(found, attr) ==
    IF found.got = Raises THEN Thrown(375)
    ELSE IF found.elems = <<>> THEN Nothing
    ELSE IF Len(Strip(found.elems[1].text)) > MinTextLen
         THEN IF attr = Raises THEN Thrown(379)
              ELSE Read(Strip(found.elems[1].text), OrEmpty(found.elems[1].html))
    ELSE Read(<<>>, "")

\* lines 373-383, with r what the reads for selector fb came to
FallbackEnd(r) ==
    /\ outcome' = Noted("fallback", r)
    /\ IF r.kind = "escaped" THEN Escape /\ fb' = fb
       ELSE IF r.kind = "read" /\ r.text # <<>> THEN Return(r.text, r.html) /\ fb' = fb
       ELSE IF fb < Len(AI_RESPONSE_FALLBACKS)
            THEN pc' = pc /\ fb' = fb + 1 /\ response' = response
       ELSE pc' = "script" /\ fb' = fb /\ response' = response

\* lines 373-383: one iteration of the loop over AI_RESPONSE_FALLBACKS
Fallback ==
    /\ mode = "locator" /\ pc = "fallback"
    /\ consulted' = IF fb = 1 THEN Append(consulted, "fallback") ELSE consulted
    /\ \E found \in Finds, attr \in {Raises, "ok"} :
          FallbackEnd(FallbackRead(found, attr))
    /\ UNCHANGED <<mode, text, fn_out, extractVars>>

\* lines 400-406 of the script: the first element of the list (what the
\* fallback selectors match, in selector order) whose trimmed text is longer
\* than MinTextLen, 0 if none
FirstLongEnough(others) ==
    IF \A k \in 1..Len(others) : Len(Strip(others[k].text)) <= MinTextLen THEN 0
    ELSE CHOOSE k \in 1..Len(others) :
             /\ Len(Strip(others[k].text)) > MinTextLen
             /\ \A m \in 1..(k - 1) : Len(Strip(others[m].text)) <= MinTextLen

\* lines 388-411: the object the script returns, on a page where the primary
\* selector matches the elements aimfl and the fallback selectors match others
ScriptFrom(k, aimfl, others) ==
    IF aimfl # <<>>
    THEN [got |-> "dict", text |-> Strip(aimfl[1].text),
          html |-> OrEmpty(aimfl[1].html), source |-> "aimfl"]
    ELSE IF k # 0
    THEN [got |-> "dict", text |-> Strip(others[k].text),
          html |-> OrEmpty(others[k].html), source |-> "selector"]
    ELSE [got |-> "dict", text |-> <<>>, html |-> "", source |-> "none"]

ScriptResult(aimfl, others) == ScriptFrom(FirstLongEnough(others), aimfl, others)

\* what execute_script comes to at line 413: it raises, it returns something
\* that is not a dict, or it returns what the script computes
ScriptReturns ==
    {[got |-> g, text |-> <<>>, html |-> "", source |-> "none"] : g \in {Raises, "other"}}
    \cup {ScriptResult(a, o) : a \in ElementLists, o \in ElementLists}

\* lines 413-419
ScriptRead(res) ==
    IF res.got = Raises THEN Thrown(413)
    ELSE IF res.got = "other" \/ res.source = "none" THEN Nothing
    ELSE Read(res.text, OrEmpty(res.html))

\* lines 414-421, with r what the call came to
ScriptEnd(res, r) ==
    /\ outcome' = Noted("script", r)
    /\ IF r.kind = "escaped" THEN Escape
       ELSE IF res.got = "dict" THEN Return(res.text, OrEmpty(res.html))
       ELSE pc' = "bubbles" /\ response' = response

\* lines 386-421: the page-context script
Script ==
    /\ mode = "locator" /\ pc = "script"
    /\ consulted' = Append(consulted, "script")
    /\ \E res \in ScriptReturns : ScriptEnd(res, ScriptRead(res))
    /\ UNCHANGED <<mode, text, fn_out, extractVars, fb>>

\* lines 426-429; read: .text or get_attribute raises, or not
BubblesRead(found, read) ==
    IF found.got = Raises THEN Thrown(426)
    ELSE IF found.elems = <<>> THEN Nothing
    ELSE IF read = Raises THEN Thrown(428)
    ELSE Read(Strip(found.elems[Len(found.elems)].text),
              OrEmpty(found.elems[Len(found.elems)].html))

\* lines 427-433, with r what the reads came to
BubblesEnd(r) ==
    /\ outcome' = Noted("bubbles", r)
    /\ IF r.kind = "escaped" THEN Escape
       ELSE IF r.kind = "read" THEN Return(r.text, r.html)
       ELSE Return(<<>>, "")

\* lines 423-433: the message bubbles, and the final return
Bubbles ==
    /\ mode = "locator" /\ pc = "bubbles"
    /\ consulted' = Append(consulted, "bubbles")
    /\ \E found \in Finds, read \in {Raises, "ok"} : BubblesEnd(BubblesRead(found, read))
    /\ UNCHANGED <<mode, text, fn_out, extractVars, fb>>

NextLocator ==
    \/ GetDriver
    \/ Primary
    \/ Fallback
    \/ Script
    \/ Bubbles

SpecLocator == InitLocator /\ [][NextLocator]_vars

(***************************************************************************)
(* PROPERTIES                                                              *)
(*                                                                         *)
(* The depth scan the properties are stated with.  It reads a text once,   *)
(* keeps a three-valued string mode ("out", "in", "esc": outside a string, *)
(* inside one, inside one right after a backslash), counts { } [ ] only in *)
(* mode "out", and records the lowest depth each counter had and the first *)
(* position after which both depths were zero (0 if there is none).        *)
(***************************************************************************)
RefStart ==
    [md |-> "out", brace |-> 0, bracket |-> 0, lowBrace |-> 0, lowBracket |-> 0,
     zeroAt |-> 0]

RefMode(md, c) ==
    IF md = "esc" THEN "in"
    ELSE IF md = "in" THEN (IF c = "\\" THEN "esc" ELSE IF c = "\"" THEN "out" ELSE "in")
    ELSE IF c = "\"" THEN "in" ELSE "out"

RefDepth(md, c, depth, opener, closer) ==
    IF md # "out" THEN depth
    ELSE IF c = opener THEN depth + 1
    ELSE IF c = closer THEN depth - 1
    ELSE depth

RefMin(a, b) == IF a < b THEN a ELSE b

RefNext(st, i, c, b, k) ==
    [md |-> RefMode(st.md, c), brace |-> b, bracket |-> k,
     lowBrace |-> RefMin(st.lowBrace, b), lowBracket |-> RefMin(st.lowBracket, k),
     zeroAt |-> IF st.zeroAt = 0 /\ b = 0 /\ k = 0 THEN i ELSE st.zeroAt]

RefStep(s, st, i) ==
    RefNext(st, i, s[i], RefDepth(st.md, s[i], st.brace, "{", "}"),
            RefDepth(st.md, s[i], st.bracket, "[", "]"))

RefScan(s) == FoldIdx(LAMBDA u, i : RefStep(s, u, i), 1, Len(s), RefStart)

\* the text from its first { or [ on, empty if it has neither
FromFirstOpener(s) ==
    IF \A k \in 1..Len(s) : s[k] \notin {"{", "["} THEN <<>>
    ELSE SubSeq(s, CHOOSE k \in 1..Len(s) :
                       /\ s[k] \in {"{", "["}
                       /\ \A m \in 1..(k - 1) : s[m] \notin {"{", "["},
                Len(s))

\* the four conditions of the integrity check, on the whole text
RefBalanced(st) ==
    /\ st.lowBrace >= 0
    /\ st.lowBracket >= 0
    /\ st.brace = 0 /\ st.bracket = 0
    /\ st.md = "out"

\* the record the validator looks at: the document if it is an object, the
\* first item if it is a non-empty array
RecordOf(d) ==
    IF d.t = "arr" /\ d.kids # <<>> THEN d.kids[1] ELSE d

RecordHasField(r) ==
    r.t = "obj" /\ (HasKey(r, S_domain) \/ HasKey(r, S_patterns))

\* what is_valid_json promises of s, stated on the decoded document d
AcceptedAs(s, d) ==
    /\ d.ok
    /\ ~Contains(Lower(s), S_example)
    /\ ~Contains(Lower(s), S_domain_com)
    /\ d.v.t = "obj" => RecordHasField(d.v)
    /\ d.v.t = "arr" => d.v.kids # <<>>
    /\ (d.v.t = "arr" /\ d.v.kids # <<>> /\ d.v.kids[1].t = "obj")
           => RecordHasField(d.v.kids[1])

Accepted(s) == s # <<>> /\ AcceptedAs(s, json_loads(s))

\* C2: extract_clean_json returns the empty string or a string that decodes,
\* carries no placeholder marker and passes the key-presence / non-empty-array
\* check.
C2_EmptyOrValid ==
    (mode = "extract" /\ pc = "done") => (result = <<>> \/ Accepted(result))

\* a call that returned a non-empty string
C2_Witness == mode = "extract" /\ pc = "done" /\ result # <<>>

\* C7: a text whose depths, from the first opener on, are never both zero gives
\* the empty string, and the scan reports as end exactly the first position
\* where both depths are zero, never an earlier one.
C7_NoEndNoResult ==
    /\ (mode = "extract" /\ pc = "done"
           /\ RefScan(FromFirstOpener(NoiseStrip(text))).zeroAt = 0)
       => result = <<>>
    /\ json_end # -1
       => /\ brace_balance = 0 /\ bracket_balance = 0
          /\ RefScan(FromFirstOpener(cleaned)).zeroAt = json_end - json_start + 1

\* a call that found an opener, scanned to the end of the text without an end
\* position and returned the empty string
C7_Witness ==
    /\ mode = "extract" /\ pc = "done"
    /\ json_start # -1 /\ json_end = -1 /\ idx = Len(cleaned)
    /\ result = <<>>

\* the span the scan cut, as the reference scan sees it
SpanScan == RefScan(json_str)

\* C10: the recheck passes exactly when no counter of the forward scan was
\* negative, and a span that reaches the sanitizer starts with an opener, ends
\* with a closer and has no negative depth at any prefix.
C10_RecheckIffNoNegative ==
    /\ integrity # "none" => ((integrity = "ok") <=> ~neg_seen)
    /\ (mode = "extract" /\ pc = "sanitize")
       => /\ json_str # <<>>
          /\ json_str[1] \in {"{", "["}
          /\ json_str[Len(json_str)] \in {"}", "]"}
          /\ SpanScan.lowBrace >= 0 /\ SpanScan.lowBracket >= 0

\* a span the recheck rejected whose last character is an opener that brought
\* a counter back from -1 to 0
C10_Witness ==
    /\ integrity = "fail" /\ neg_seen
    /\ json_str # <<>> /\ json_str[Len(json_str)] \in {"{", "["}

\* the document the argument serializes, when it serializes one
InputDoc == json_loads(text)

\* the document the returned string serializes
OutputDoc == json_loads(result)

\* d is an accepted document: it decodes, its record has domain or patterns and
\* its text carries no placeholder marker
RoundTripDoc(s, d) ==
    /\ s # <<>>
    /\ d.ok
    /\ RecordHasField(RecordOf(d.v))
    /\ ~Contains(Lower(s), S_example)
    /\ ~Contains(Lower(s), S_domain_com)

\* out is d, or d with the artifacts removed from its string values
SameUpToArtifacts(d, out) == out.ok /\ out.v \in {d.v, clean_recursive(d.v)}

\* C1: for every accepted document D, extract_clean_json on the serialized
\* text of D returns a non-empty string that decodes to D, up to the artifacts
\* removed from string values; also when the values hold characters outside
\* the allow-list.
C1_RoundTrip ==
    (mode = "extract" /\ pc = "done" /\ RoundTripDoc(text, InputDoc))
        => (result # <<>> /\ SameUpToArtifacts(InputDoc, OutputDoc))

\* C3: every non-empty string returned decodes to a document whose record (the
\* object itself, or the first item of the array) has the key domain or the key
\* patterns; also when the first item of the array is not an object.
C3_RecordHasField ==
    (mode = "extract" /\ pc = "done" /\ result # <<>>)
        => (OutputDoc.ok /\ RecordHasField(RecordOf(OutputDoc.v)))

\* the text is an accepted document (an object or an array) written with allow-listed characters only,
\* with nothing for the noise strip or the sanitizer to remove
PlainAccepted(s, d) ==
    /\ Accepted(s)
    /\ d.v.t \in {"obj", "arr"}
    /\ NoiseStrip(s) = s
    /\ clean_recursive(d.v) = d.v

\* C6: an accepted document written with allow-listed characters and without
\* artifacts comes back unchanged, character for character.
C6_ReturnedUnchanged ==
    (mode = "extract" /\ pc = "done" /\ PlainAccepted(text, InputDoc))
        => result = text

\* C4: for every syntactically valid JSON text, sanitizing the sanitized text
\* gives the sanitized text.
C4_SanitizeIdempotent ==
    (mode = "fn" /\ pc = "done" /\ InputDoc.ok) => fn_out.twice = fn_out.once

\* C5: _verify_json_integrity is true exactly for the non-empty texts whose
\* brace depth and bracket depth are never negative at any prefix, are both
\* zero at the end, and whose scan does not end inside an open string.
C5_VerifyIffBalanced ==
    (mode = "fn" /\ pc # "start")
        => (fn_out.verify <=> (text # <<>> /\ RefBalanced(RefScan(text))))

\* a text _verify_json_integrity accepts although it holds a brace, inside a string
C5_Witness ==
    /\ mode = "fn" /\ pc # "start"
    /\ fn_out.verify
    /\ \E k \in 1..Len(text) : text[k] \in {"{", "}", "[", "]"}
    /\ \A k \in 1..Len(text) : text[k] \in {"{", "}", "[", "]"} => RefScan(SubSeq(text, 1, k - 1)).md = "in"

\* the strategies of extract_ai_response, in the order the claim gives them
Strategies == <<"primary", "fallback", "script", "bubbles">>

YieldedText(strategy) == "text" \in outcome[strategy]

\* C8: the strategies are consulted in the order primary, fallbacks, script,
\* bubbles; the first that yields text gives the result; and each later one is
\* consulted whenever all earlier ones yielded no text, the bubbles in
\* particular whenever primary, fallbacks and script yielded none.
C8_StrategyOrder ==
    (mode = "locator" /\ pc = "done" /\ outcome["driver"] = {"driver"})
        => /\ consulted = SubSeq(Strategies, 1, Len(consulted))
           /\ \A i \in 1..Len(Strategies) :
                  (\A j \in 1..(i - 1) : ~YieldedText(Strategies[j]))
                      => i <= Len(consulted)
           /\ \A i \in 1..Len(consulted) :
                  YieldedText(consulted[i])
                      => (i = Len(consulted) /\ response.text # <<>>)

\* get_driver failed, or every strategy consulted raised or found nothing
AllFailed ==
    \/ outcome["driver"] # {"driver"}
    \/ \A i \in 1..Len(Strategies) : outcome[Strategies[i]] \subseteq {"raised", "nothing"}

\* C9: whatever the driver calls do, extract_ai_response returns a pair of
\* strings and no exception leaves it; the pair is ("", "") when get_driver
\* raises or gives no driver, or every strategy raises or finds nothing.
C9_AlwaysReturnsPair ==
    (mode = "locator" /\ pc = "done")
        => /\ response.kind = "returned"
           /\ response.text \in {Strip(t) : t \in Texts}
           /\ response.html \in {OrEmpty(h) : h \in Htmls}
           /\ AllFailed => (response.text = <<>> /\ response.html = "")

\* a call in which the driver was there, every strategy was consulted and every
\* one of them raised
C9_Witness ==
    /\ mode = "locator" /\ pc = "done"
    /\ outcome["driver"] = {"driver"}
    /\ \A i \in 1..Len(Strategies) : outcome[Strategies[i]] = {"raised"}
    /\ consulted = Strategies
    /\ response = [kind |-> "returned", text |-> <<>>, html |-> ""]

====
